---- MODULE Spec2Model ----
(***************************************************************************)
(* Model of the Zombie Survivor service worker (src/service-worker.js,     *)
(* the v2.0 worker of lines 91-346, with the v1 fetch exclusion of lines   *)
(* 45-51 kept as an operator for comparison).                              *)
(*                                                                         *)
(* A URL is a sequence of tokens: every "/" is a token of its own, and the *)
(* substrings the code searches for ('firebase', 'googleapis', '.mp4',     *)
(* '.mp3') are tokens of their own, so String.includes and                 *)
(* split('/').pop() are computed on the token sequence as the code         *)
(* computes them on the characters.                                        *)
(***************************************************************************)
EXTENDS Integers, Sequences, FiniteSets, TLC

\* Number of events (fetch events and control messages together) the pages
\* send the worker in one behaviour.
MaxEvents == 1

-----------------------------------------------------------------------------
(* Constants of the worker                                                 *)

CACHE_NAME_V1 == "zombie-survivor-v1"
CACHE_NAME == "zombie-survivor-v2.0"
STATIC_CACHE == "zombie-static-v2.0"
DYNAMIC_CACHE == "zombie-dynamic-v2.0"

\* The bucket names activation keeps (line 150).
BucketSet == {STATIC_CACHE, DYNAMIC_CACHE}

\* Buckets of earlier versions that the store may hold when this worker starts.
StaleNames == {CACHE_NAME_V1, CACHE_NAME}

Flaticon(dir, file) ==
    <<"https:", "/", "/", "cdn-icons-png.flaticon.com", "/", "512", "/", dir, "/", file>>

STATIC_FILES ==
    << <<"/">>,
       <<"/", "index.html">>,
       <<"/", "manifest.json">>,
       <<"/", "logozombie.png">>,
       <<"https:", "/", "/", "cdn.tailwindcss.com">>,
       <<"https:", "/", "/", "fonts.", "googleapis", ".com", "/",
         "css2?family=Orbitron:wght@400;900&family=Inter:wght@400;500;700&display=swap">>,
       Flaticon("3408", "3408545.png"),
       Flaticon("4140", "4140037.png"),
       Flaticon("1154", "1154443.png"),
       Flaticon("606", "606553.png"),
       Flaticon("2966", "2966327.png"),
       Flaticon("2590", "2590525.png"),
       Flaticon("1066", "1066744.png"),
       Flaticon("1067", "1067357.png") >>

FirebaseSdk(file) ==
    <<"https:", "/", "/", "www.gstatic.com", "/", "firebase", "js", "/", "10.8.0", "/",
      "firebase", file>>

FIREBASE_FILES ==
    << FirebaseSdk("-app.js"), FirebaseSdk("-auth.js"), FirebaseSdk("-firestore.js") >>

\* The origin the worker is served from; root-relative entries resolve against it.
Origin == <<"https:", "/", "/", "zombie.app">>

-----------------------------------------------------------------------------
(* String operations on token sequences                                    *)

Range(s) == {s[i] : i \in 1..Len(s)}

MaxOf(S) == CHOOSE x \in S : \A y \in S : y <= x

\* String.prototype.includes: sub occurs in h as a contiguous run.
\* The empty string occurs in every string.
Includes(h, sub) ==
    \E i \in 0..(Len(h) - Len(sub)) : SubSeq(h, i + 1, i + Len(sub)) = sub

\* file.split('/').pop(): what follows the last "/" (the whole string when
\* there is none, the empty string when the string ends in "/").
SplitPop(file) ==
    LET slashes == {i \in 1..Len(file) : file[i] = "/"}
        last == IF slashes = {} THEN 0 ELSE MaxOf(slashes)
    IN  SubSeq(file, last + 1, Len(file))

\* url.protocol of new URL(event.request.url).
Protocol(href) == Head(href)

\* The request URL a root-relative or absolute list entry names.
Resolve(file) == IF Head(file) = "/" THEN Origin \o file ELSE file

-----------------------------------------------------------------------------
(* Request classification, lines 165-198                                   *)

IsWebSocket(href) == Protocol(href) = "ws:" \/ Protocol(href) = "wss:"

IsFirebaseOrApi(href) ==
    Includes(href, <<"firebase">>) \/ Includes(href, <<"googleapis">>)

\* IsStaticAsset as it would be with the list searched for the whole URL.
IsStaticAssetExact(href) ==
    \E i \in 1..Len(STATIC_FILES) : href = STATIC_FILES[i]

IsStaticAsset(href) ==
    \E i \in 1..Len(STATIC_FILES) : Includes(href, SplitPop(STATIC_FILES[i]))

\* Branch as it would be with the firebase/googleapis rule tested first.
BranchApiFirst(href) ==
    IF IsFirebaseOrApi(href) THEN "api"
    ELSE IF IsWebSocket(href) THEN "ws"
    ELSE IF IsStaticAsset(href) THEN "static"
    ELSE "default"

\* The branch of the fetch listener a request URL takes, rules in source order.
Branch(href) ==
    IF IsWebSocket(href) THEN "ws"
    ELSE IF IsFirebaseOrApi(href) THEN "api"
    ELSE IF IsStaticAsset(href) THEN "static"
    ELSE "default"

\* The routing decision of each branch.
Classify(href) ==
    CASE Branch(href) = "ws" -> "passthrough"
      [] Branch(href) = "api" -> "network-first"
      [] Branch(href) = "static" -> "cache-first"
      [] OTHER -> "network-first"

\* The v1 listener's exclusion (lines 47-51): it returns without respondWith.
V1Excluded(href) ==
    \/ Includes(href, <<"firebase">>)
    \/ Includes(href, <<".mp4">>)
    \/ Includes(href, <<".mp3">>)

-----------------------------------------------------------------------------
(* Requests and responses                                                  *)

UrlSocket ==
    <<"wss:", "/", "/", "s-usc1c-nss-2077.", "firebase", "io.com", "/", ".ws?v=5">>
UrlGameSocket == <<"ws:", "/", "/", "zombie.app", "/", "index.html">>
UrlFirestore ==
    <<"https:", "/", "/", "firestore.", "googleapis", ".com", "/", "v1", "/", "documents">>
UrlFonts == STATIC_FILES[6]
UrlIndex == Resolve(STATIC_FILES[2])
UrlScores == Origin \o <<"/", "api", "/", "scores.json">>
UrlVideo == Origin \o <<"/", "assets", "/", "zombies", "/", "zombie1", ".mp4">>
UrlSound == Origin \o <<"/", "assets", "/", "sounds", "/", "shot", ".mp3">>
UrlRoot == Resolve(STATIC_FILES[1])

\* The requests the pages of the model issue. accept is the value of
\* headers.get('accept'): a header naming text/html ("text/html"), a header
\* not naming it ("other"), or null when the request carries none ("null").
Requests ==
    { [url |-> UrlSocket, accept |-> "null"],
      [url |-> UrlGameSocket, accept |-> "null"],
      [url |-> UrlFirestore, accept |-> "text/html"],
      [url |-> UrlFirestore, accept |-> "null"],
      [url |-> UrlFonts, accept |-> "other"],
      [url |-> UrlIndex, accept |-> "text/html"],
      [url |-> UrlScores, accept |-> "other"],
      [url |-> UrlScores, accept |-> "null"],
      [url |-> UrlVideo, accept |-> "other"],
      [url |-> UrlSound, accept |-> "other"] }

\* What a promise resolves to when a callback returns nothing, and what
\* caches.match resolves to on a miss.
Undefined == [status |-> 0, body |-> "undefined"]

NetworkResponse(status) == [status |-> status, body |-> "network"]
InstalledResponse == [status |-> 200, body |-> "installed"]
V1Response == [status |-> 200, body |-> "v1"]

\* new Response('<h1>Zombie Survivor - Modo Offline</h1>...', {headers}), line 253.
OfflinePage == [status |-> 200, body |-> "offline-page"]
\* new Response('', {status: 408, statusText: 'Offline'}), line 260.
OfflineError == [status |-> 408, body |-> ""]

\* The bodies the network answers with: one while the server's content stays
\* the same, two when it changes between two fetches of the same URL.
NetworkBodies == {NetworkResponse(200).body}
RaceBodies == NetworkBodies \cup {"network-updated"}

\* The statuses the network answers with.
NetworkStatuses == {200, 404}

-----------------------------------------------------------------------------
(* The cache store: buckets in creation order, each a set of entries       *)

Entry(key, resp) == [key |-> key, resp |-> resp]

BucketOf(st, name) == CHOOSE i \in 1..Len(st) : st[i].name = name

HasBucket(st, name) == \E i \in 1..Len(st) : st[i].name = name

\* caches.keys(): the bucket names in creation order.
StoreKeys(st) == [i \in 1..Len(st) |-> st[i].name]

\* caches.open(name): creates the bucket when the store has none of that name.
StoreOpen(st, name) ==
    IF HasBucket(st, name) THEN st
    ELSE Append(st, [name |-> name, entries |-> {}])

\* caches.delete(name).
StoreDelete(st, name) == SelectSeq(st, LAMBDA b : b.name # name)

\* StorePut as it would be with an entry already in the bucket kept.
StorePutKeepsFirst(st, name, new) ==
    [i \in 1..Len(st) |->
        IF st[i].name = name
        THEN [st[i] EXCEPT !.entries =
                @ \cup {n \in new : \A e \in @ : e.key # n.key}]
        ELSE st[i]]

\* cache.put / cache.addAll on the bucket called name: one entry per key.
StorePut(st, name, new) ==
    [i \in 1..Len(st) |->
        IF st[i].name = name
        THEN [st[i] EXCEPT !.entries =
                {e \in @ : \A n \in new : n.key # e.key} \cup new]
        ELSE st[i]]

BucketMatch(bucket, key) ==
    IF \E e \in bucket.entries : e.key = key
    THEN (CHOOSE e \in bucket.entries : e.key = key).resp
    ELSE Undefined

\* caches.match(request): the entry of the first bucket, in creation order,
\* that holds one for the request; undefined when none does.
StoreMatch(st, key) ==
    LET hits == {i \in 1..Len(st) : BucketMatch(st[i], key) # Undefined}
    IN  IF hits = {} THEN Undefined
        ELSE BucketMatch(st[CHOOSE i \in hits : \A j \in hits : i <= j], key)

\* The entry of the static bucket for key, undefined when there is none.
StaticEntry(st, key) ==
    IF HasBucket(st, STATIC_CACHE)
    THEN BucketMatch(st[BucketOf(st, STATIC_CACHE)], key)
    ELSE Undefined

\* What the v1 worker left in its bucket (ASSETS_TO_CACHE, lines 2-5).
V1Entries ==
    { Entry(Resolve(<<"/">>), V1Response),
      Entry(Resolve(<<"/", "index.html">>), V1Response),
      Entry(Resolve(<<"/", "manifest.json">>), V1Response) }

\* The store an earlier version left behind, for each set of its buckets.
StaleStore(names) ==
    SelectSeq(<< [name |-> CACHE_NAME_V1, entries |-> V1Entries],
                 [name |-> CACHE_NAME, entries |-> {}] >>,
              LAMBDA b : b.name \in names)

\* The install list, cache.addAll([...STATIC_FILES, ...FIREBASE_FILES]).
InstallList == STATIC_FILES \o FIREBASE_FILES

InstallEntries == {Entry(Resolve(f), InstalledResponse) : f \in Range(InstallList)}

-----------------------------------------------------------------------------
(* State                                                                   *)

VARIABLES
    store,              \* the cache store
    installPc,          \* position in the install listener's promise chain
    installOutcome,     \* the promise given to the install event's waitUntil
    installAttached,    \* the Cache object install holds is still in the store
    assetFailed,        \* an asset of the install list failed to fetch
    skipWaiting,        \* the listeners that have called self.skipWaiting()
    activatePc,         \* position in the activate listener's promise chain
    activateOutcome,    \* the promise given to the activate event's waitUntil
    activateDeletes,    \* the caches.delete calls of activation, by bucket name
    clientsClaimed,     \* self.clients.claim() was called
    tasks,              \* the fetch events, one record each
    msgs                \* the message events, one record each

vars == <<store, installPc, installOutcome, installAttached, assetFailed,
          skipWaiting, activatePc, activateOutcome, activateDeletes,
          clientsClaimed, tasks, msgs>>

installVars == <<installPc, installOutcome, installAttached, assetFailed>>
activateVars == <<activatePc, activateOutcome, activateDeletes, clientsClaimed>>

TaskIds == DOMAIN tasks
MsgIds == DOMAIN msgs

NoRequest == [url |-> <<>>, accept |-> "null"]

\* A fetch event nobody has dispatched yet.
\*   outcome: "pending", "passthrough" (respondWith never called), "response",
\*            "noresponse" (respondWith's promise resolved to undefined),
\*            "rejected" (respondWith's promise rejected)
\*   fetchCalls: the number of fetch(event.request) calls
\*   put: the fire-and-forget caches.open(...).then(cache.put) of the event
\* and, for stating properties, what the event has gone through:
\*   netFailed: fetch(event.request) rejected
\*   lookedUp: caches.match(event.request) has resolved
\*   matched: what caches.match(event.request) resolved to
\*   seen: the static bucket's entry for the request when it resolved
IdleTask ==
    [pc |-> "unused", req |-> NoRequest, branch |-> "none", outcome |-> "pending",
     result |-> Undefined, fetchCalls |-> 0, put |-> "none", netFailed |-> FALSE,
     lookedUp |-> FALSE, matched |-> Undefined, seen |-> Undefined]

\* A message event nobody has dispatched yet.
\*   dels: the names whose caches.delete, started by CLEAR_CACHE, is pending
\*   failed: one of the caches.delete calls of CLEAR_CACHE has rejected
\*   reply, cacheNames: what was posted on ports[0]
\*   afterActivate: caches.keys() resolved after activation had completed
IdleMsg ==
    [pc |-> "unused", type |-> "none", port |-> FALSE, dels |-> {},
     failed |-> FALSE, reply |-> "none", cacheNames |-> <<>>,
     afterActivate |-> FALSE]

MessageTypes == {"SKIP_WAITING", "GET_CACHE_INFO", "CLEAR_CACHE"}

Init ==
    /\ store = StaleStore(StaleNames)
    /\ installPc = "start"
    /\ installOutcome = "pending"
    /\ installAttached = FALSE
    /\ assetFailed = FALSE
    /\ skipWaiting = {}
    /\ activatePc = "idle"
    /\ activateOutcome = "pending"
    /\ activateDeletes = [n \in {} |-> "pending"]
    /\ clientsClaimed = FALSE
    /\ \E fetches \in 0..MaxEvents :
            /\ tasks = [t \in 1..fetches |-> IdleTask]
            /\ msgs = [m \in 1..(MaxEvents - fetches) |-> IdleMsg]

\* PutBucket as it would be with one bucket for every branch.
PutBucketStatic(branch) == STATIC_CACHE

\* The bucket a branch writes its successful responses to.
PutBucket(branch) == IF branch = "static" THEN STATIC_CACHE ELSE DYNAMIC_CACHE

\* caches.delete(name) taking effect: the bucket leaves the store, and a
\* Cache object already opened on it no longer writes to the store.
Detach(ts, name) ==
    [t \in DOMAIN ts |->
        IF ts[t].put = "put" /\ PutBucket(ts[t].branch) = name
        THEN [ts[t] EXCEPT !.put = "orphan"]
        ELSE ts[t]]

DoDelete(name) ==
    /\ store' = StoreDelete(store, name)
    /\ tasks' = Detach(tasks, name)
    /\ installAttached' = (installAttached /\ name # STATIC_CACHE)

-----------------------------------------------------------------------------
(* install listener, lines 122-139                                         *)
(* A then/catch callback runs as a microtask of the turn that settles its  *)
(* promise, so it belongs to the action of that settlement.                *)

\* caches.open(STATIC_CACHE) resolves; the callback calls cache.addAll.
InstallOpen ==
    /\ installPc = "start"
    /\ installPc' = "opened"
    /\ store' = StoreOpen(store, STATIC_CACHE)
    /\ installAttached' = TRUE
    /\ UNCHANGED <<installOutcome, assetFailed, skipWaiting, activateVars,
                   tasks, msgs>>

\* cache.addAll resolves: every asset was fetched and stored; the then
\* callback of lines 131-134 calls self.skipWaiting().
InstallAddAll ==
    /\ installPc = "opened"
    /\ installPc' = "done"
    /\ store' = IF installAttached
                THEN StorePut(store, STATIC_CACHE, InstallEntries)
                ELSE store
    /\ skipWaiting' = skipWaiting \cup {"install"}
    /\ installOutcome' = "fulfilled"
    /\ UNCHANGED <<installAttached, assetFailed, activateVars, tasks, msgs>>

\* What the promise given to waitUntil settles to when addAll rejects: the
\* catch callback of lines 135-137 logs and returns, which fulfils the chain.
InstallCatch == "fulfilled"

\* cache.addAll rejects: an asset failed to fetch and nothing is stored.
InstallAddAllFail ==
    /\ installPc = "opened"
    /\ installPc' = "done"
    /\ assetFailed' = TRUE
    /\ installOutcome' = InstallCatch
    /\ UNCHANGED <<store, installAttached, skipWaiting, activateVars,
                   tasks, msgs>>

-----------------------------------------------------------------------------
(* activate listener, lines 142-162                                        *)

\* The platform promotes a worker whose install promise fulfilled and
\* dispatches activate; the listener calls caches.keys().
ActivateEvent ==
    /\ installOutcome = "fulfilled"
    /\ activatePc = "idle"
    /\ activatePc' = "keys"
    /\ UNCHANGED <<store, installVars, skipWaiting, activateOutcome,
                   activateDeletes, clientsClaimed, tasks, msgs>>

\* Prune as it would be with the worker's unused CACHE_NAME also kept.
PruneKeepsCacheName(names) ==
    {n \in Range(names) : n # STATIC_CACHE /\ n # DYNAMIC_CACHE /\ n # CACHE_NAME}

\* Prune as it would be with only the static bucket kept.
PruneDeletesDynamic(names) == {n \in Range(names) : n # STATIC_CACHE}

\* The names activation deletes among those caches.keys() resolved to.
Prune(names) == {n \in Range(names) : n # STATIC_CACHE /\ n # DYNAMIC_CACHE}

\* PromiseAll as it would be without waiting for the pending promises.
PromiseAllIgnoresPending(pending, failed) ==
    IF failed THEN "rejected" ELSE "fulfilled"

\* Promise.all over the deletes: rejected once one has rejected, fulfilled
\* once all have resolved, pending otherwise.
PromiseAll(pending, failed) ==
    IF failed THEN "rejected"
    ELSE IF pending = {} THEN "fulfilled"
    ELSE "pending"

Pending(dels) == {n \in DOMAIN dels : dels[n] = "pending"}
Failed(dels) == {n \in DOMAIN dels : dels[n] = "failed"}

\* The activate chain after a change of its deletes: the then callback of
\* lines 157-160 claims the clients when Promise.all fulfils; the chain has
\* no catch, so a rejection of Promise.all rejects the promise given to
\* waitUntil and the then callback never runs.
ActivateSettle(dels) ==
    /\ activateDeletes' = dels
    /\ IF activatePc # "keys" /\ activatePc # "deleting"
       THEN UNCHANGED <<activatePc, activateOutcome, clientsClaimed>>
       ELSE LET all == PromiseAll(Pending(dels), Failed(dels) # {}) IN
            /\ activatePc' = IF all = "pending" THEN "deleting" ELSE "done"
            /\ activateOutcome' = all
            /\ clientsClaimed' = (all = "fulfilled")

\* caches.keys() resolves; the map callback starts one caches.delete per
\* stale name, all in the same turn.
ActivateKeys ==
    /\ activatePc = "keys"
    /\ ActivateSettle([n \in Prune(StoreKeys(store)) |-> "pending"])
    /\ UNCHANGED <<store, installVars, skipWaiting, tasks, msgs>>

\* One caches.delete of activation resolves.
ActivateDeleteOk(n) ==
    /\ n \in DOMAIN activateDeletes
    /\ activateDeletes[n] = "pending"
    /\ ActivateSettle([activateDeletes EXCEPT ![n] = "ok"])
    /\ DoDelete(n)
    /\ UNCHANGED <<installPc, installOutcome, assetFailed, skipWaiting, msgs>>

\* One caches.delete of activation rejects: the bucket stays.
ActivateDeleteFail(n) ==
    /\ n \in DOMAIN activateDeletes
    /\ activateDeletes[n] = "pending"
    /\ ActivateSettle([activateDeletes EXCEPT ![n] = "failed"])
    /\ UNCHANGED <<store, installVars, skipWaiting, tasks, msgs>>

-----------------------------------------------------------------------------
(* fetch listener, lines 165-264                                           *)

\* Fetch events are numbered in dispatch order.
NextTask(t) == tasks[t].pc = "unused" /\ \A u \in TaskIds : u < t => tasks[u].pc # "unused"

\* The synchronous part of the listener: the websocket return, or the branch
\* that calls respondWith; "api" and "default" start with fetch(event.request),
\* "static" with caches.match(event.request). The platform dispatches fetch
\* events once the worker is activated, which it is when the activate
\* promise has settled either way.
FetchEvent(t, req) ==
    /\ activateOutcome # "pending"
    /\ NextTask(t)
    /\ LET b == Branch(req.url) IN
        tasks' = [tasks EXCEPT ![t] =
            [IdleTask EXCEPT
                !.req = req,
                !.branch = b,
                !.pc = CASE b = "ws" -> "done"
                         [] b = "static" -> "matching"
                         [] OTHER -> "fetching",
                !.outcome = IF b = "ws" THEN "passthrough" ELSE "pending",
                !.fetchCalls = IF b \in {"api", "default"} THEN 1 ELSE 0]]
    /\ UNCHANGED <<store, installVars, skipWaiting, activateVars, msgs>>

\* NetworkRespond as it would be with the response held back until the put
\* of a 200 response has finished.
NetworkRespondAwaitsPut(t, status, body) ==
    /\ tasks[t].pc = "fetching"
    /\ tasks' = [tasks EXCEPT ![t] =
            [@ EXCEPT !.pc = IF status = 200 THEN "putting" ELSE "done",
                      !.outcome = IF status = 200 THEN "pending" ELSE "response",
                      !.result = [NetworkResponse(status) EXCEPT !.body = body],
                      !.put = IF status = 200 THEN "open" ELSE "none"]]
    /\ UNCHANGED <<store, installVars, skipWaiting, activateVars, msgs>>

\* NetworkRespond as it would be without the test of the status.
NetworkRespondCachesAll(t, status, body) ==
    /\ tasks[t].pc = "fetching"
    /\ tasks' = [tasks EXCEPT ![t] =
            [@ EXCEPT !.pc = "done",
                      !.outcome = "response",
                      !.result = [NetworkResponse(status) EXCEPT !.body = body],
                      !.put = "open"]]
    /\ UNCHANGED <<store, installVars, skipWaiting, activateVars, msgs>>

\* fetch(event.request) resolves with a response: the then callbacks of
\* lines 177-187, 206-218 and 231-241. A 200 response is cloned and the
\* clone's put is started without being awaited; the response is returned.
\* body is what the server sent.
NetworkRespond(t, status, body) ==
    /\ tasks[t].pc = "fetching"
    /\ tasks' = [tasks EXCEPT ![t] =
            [@ EXCEPT !.pc = "done",
                      !.outcome = "response",
                      !.result = [NetworkResponse(status) EXCEPT !.body = body],
                      !.put = IF status = 200 THEN "open" ELSE "none"]]
    /\ UNCHANGED <<store, installVars, skipWaiting, activateVars, msgs>>

\* NetworkFail as it would be with the static branch's catch never settling.
NetworkFailHangs(t) ==
    /\ tasks[t].pc = "fetching"
    /\ tasks' = [tasks EXCEPT ![t] =
            IF @.branch = "static"
            THEN [@ EXCEPT !.pc = "hung", !.netFailed = TRUE]
            ELSE [@ EXCEPT !.pc = "matching", !.netFailed = TRUE]]
    /\ UNCHANGED <<store, installVars, skipWaiting, activateVars, msgs>>

\* fetch(event.request) rejects: the catch callbacks of lines 188-191
\* (caches.match), 219-222 (logs, returns nothing) and 242-244 (caches.match).
NetworkFail(t) ==
    /\ tasks[t].pc = "fetching"
    /\ tasks' = [tasks EXCEPT ![t] =
            IF @.branch = "static"
            THEN [@ EXCEPT !.pc = "done", !.outcome = "noresponse",
                           !.result = Undefined, !.netFailed = TRUE]
            ELSE [@ EXCEPT !.pc = "matching", !.netFailed = TRUE]]
    /\ UNCHANGED <<store, installVars, skipWaiting, activateVars, msgs>>

\* What respondWith's promise settles to when the value is r.
Settled(task, r) ==
    [task EXCEPT !.pc = "done",
                 !.result = r,
                 !.outcome = IF r = Undefined THEN "noresponse" ELSE "response"]

\* The callback of the default branch's caches.match(event.request), lines
\* 245-261: the cached response; else for a request accepting HTML
\* caches.match('/'); else the 408 response. headers.get('accept') is null
\* for a request without the header, and null.includes throws.
DefaultFallback(task, r) ==
    IF r # Undefined THEN Settled(task, r)
    ELSE IF task.req.accept = "null"
         THEN [task EXCEPT !.pc = "done", !.outcome = "rejected"]
    ELSE IF task.req.accept = "text/html"
         THEN [task EXCEPT !.pc = "matchingRoot"]
    ELSE Settled(task, OfflineError)

\* A caches.match resolves with r: line 200 ("static": the hit, or on a miss
\* fetch(event.request)), line 190 ("api": whatever match gave), line 245
\* ("default"), line 253 (homePage || new Response(...)).
\* AfterMatch as it would be with the static branch refetching on a hit.
AfterMatchRefetch(task, r) ==
    CASE task.pc = "matchingRoot" ->
            Settled(task, IF r # Undefined THEN r ELSE OfflinePage)
      [] task.branch = "static" ->
            [task EXCEPT !.pc = "fetching", !.fetchCalls = @ + 1]
      [] task.branch = "api" -> Settled(task, r)
      [] OTHER -> DefaultFallback(task, r)

\* AfterMatch as it would be with the api branch ignoring what match gave.
AfterMatchApiOffline(task, r) ==
    CASE task.pc = "matchingRoot" ->
            Settled(task, IF r # Undefined THEN r ELSE OfflinePage)
      [] task.branch = "static" ->
            IF r # Undefined THEN Settled(task, r)
            ELSE [task EXCEPT !.pc = "fetching", !.fetchCalls = @ + 1]
      [] task.branch = "api" -> Settled(task, OfflineError)
      [] OTHER -> DefaultFallback(task, r)

AfterMatch(task, r) ==
    CASE task.pc = "matchingRoot" ->
            Settled(task, IF r # Undefined THEN r ELSE OfflinePage)
      [] task.branch = "static" ->
            IF r # Undefined THEN Settled(task, r)
            ELSE [task EXCEPT !.pc = "fetching", !.fetchCalls = @ + 1]
      [] task.branch = "api" -> Settled(task, r)
      [] OTHER -> DefaultFallback(task, r)

\* Notes on the event what its caches.match(event.request) found.
Looked(task, r, static) ==
    IF task.pc = "matchingRoot" THEN task
    ELSE [task EXCEPT !.lookedUp = TRUE, !.matched = r, !.seen = static]

CacheMatch(t) ==
    /\ tasks[t].pc \in {"matching", "matchingRoot"}
    /\ LET key == IF tasks[t].pc = "matchingRoot" THEN UrlRoot ELSE tasks[t].req.url
           r == StoreMatch(store, key)
       IN  tasks' = [tasks EXCEPT ![t] =
                AfterMatch(Looked(@, r, StaticEntry(store, key)), r)]
    /\ UNCHANGED <<store, installVars, skipWaiting, activateVars, msgs>>

\* caches.open(STATIC_CACHE | DYNAMIC_CACHE) of a pending put resolves.
PutOpen(t) ==
    /\ tasks[t].put = "open"
    /\ store' = StoreOpen(store, PutBucket(tasks[t].branch))
    /\ tasks' = [tasks EXCEPT ![t].put = "put"]
    /\ UNCHANGED <<installVars, skipWaiting, activateVars, msgs>>

\* cache.put(event.request, responseClone) completes.
PutWrite(t) ==
    /\ tasks[t].put \in {"put", "orphan"}
    /\ store' = IF tasks[t].put = "put"
                THEN StorePut(store, PutBucket(tasks[t].branch),
                              {Entry(tasks[t].req.url, tasks[t].result)})
                ELSE store
    /\ tasks' = [tasks EXCEPT ![t].put = "done"]
    /\ UNCHANGED <<installVars, skipWaiting, activateVars, msgs>>

\* caches.open or cache.put rejects (quota, storage error); nobody handles it.
PutFail(t) ==
    /\ tasks[t].put \in {"open", "put", "orphan"}
    /\ tasks' = [tasks EXCEPT ![t].put = "failed"]
    /\ UNCHANGED <<store, installVars, skipWaiting, activateVars, msgs>>

-----------------------------------------------------------------------------
(* message listener, lines 267-290                                         *)

NextMsg(m) == msgs[m].pc = "unused" /\ \A u \in MsgIds : u < m => msgs[u].pc # "unused"

\* The synchronous part: SKIP_WAITING calls skipWaiting; GET_CACHE_INFO and
\* CLEAR_CACHE call caches.keys().
MessageEvent(m, type, port) ==
    /\ NextMsg(m)
    /\ msgs' = [msgs EXCEPT ![m] =
            [IdleMsg EXCEPT !.type = type,
                            !.port = port,
                            !.pc = IF type = "SKIP_WAITING" THEN "done" ELSE "keys"]]
    /\ skipWaiting' = IF type = "SKIP_WAITING" THEN skipWaiting \cup {"message"}
                                                ELSE skipWaiting
    /\ UNCHANGED <<store, installVars, activateVars, tasks>>

\* event.ports[0].postMessage(reply): ports[0] is undefined without a reply
\* channel and the call throws.
Post(msg, reply) ==
    IF msg.port THEN [msg EXCEPT !.pc = "done", !.reply = reply]
    ELSE [msg EXCEPT !.pc = "threw"]

\* The CLEAR_CACHE chain after a change of its deletes: the then callback of
\* lines 286-288 posts CACHE_CLEARED when Promise.all fulfils; a rejection
\* of Promise.all is handled by nobody and nothing is posted.
ClearSettle(msg, dels, failed) ==
    LET m2 == [msg EXCEPT !.dels = dels, !.failed = failed]
        all == PromiseAll(dels, failed)
    IN  IF msg.pc # "keys" /\ msg.pc # "deleting" THEN m2
        ELSE CASE all = "fulfilled" -> Post(m2, "CACHE_CLEARED")
               [] all = "rejected" -> [m2 EXCEPT !.pc = "rejected"]
               [] OTHER -> [m2 EXCEPT !.pc = "deleting"]

\* caches.keys() resolves: GET_CACHE_INFO posts the names (lines 273-278),
\* CLEAR_CACHE starts one caches.delete per name (lines 282-285).
MessageKeys(m) ==
    /\ msgs[m].pc = "keys"
    /\ LET names == StoreKeys(store)
           seenMsg == [msgs[m] EXCEPT !.afterActivate = (activateOutcome = "fulfilled")]
       IN  msgs' = [msgs EXCEPT ![m] =
                IF @.type = "GET_CACHE_INFO"
                THEN Post([seenMsg EXCEPT !.cacheNames = IF seenMsg.port THEN names ELSE <<>>],
                          "CACHE_INFO")
                ELSE ClearSettle(seenMsg, Range(names), FALSE)]
    /\ UNCHANGED <<store, installVars, skipWaiting, activateVars, tasks>>

\* One caches.delete of CLEAR_CACHE resolves.
MessageDeleteOk(m, n) ==
    /\ n \in msgs[m].dels
    /\ msgs' = [msgs EXCEPT ![m] = ClearSettle(@, @.dels \ {n}, @.failed)]
    /\ DoDelete(n)
    /\ UNCHANGED <<installPc, installOutcome, assetFailed, skipWaiting,
                   activateVars>>

\* One caches.delete of CLEAR_CACHE rejects: the bucket stays.
MessageDeleteFail(m, n) ==
    /\ n \in msgs[m].dels
    /\ msgs' = [msgs EXCEPT ![m] = ClearSettle(@, @.dels \ {n}, TRUE)]
    /\ UNCHANGED <<store, installVars, skipWaiting, activateVars, tasks>>

-----------------------------------------------------------------------------

Next ==
    \/ InstallOpen
    \/ InstallAddAll
    \/ InstallAddAllFail
    \/ ActivateEvent
    \/ ActivateKeys
    \/ \E n \in StaleNames : ActivateDeleteOk(n)
    \/ \E n \in StaleNames : ActivateDeleteFail(n)
    \/ \E t \in TaskIds, req \in Requests : FetchEvent(t, req)
    \/ \E t \in TaskIds, status \in NetworkStatuses, body \in NetworkBodies :
            NetworkRespond(t, status, body)
    \/ \E t \in TaskIds : NetworkFail(t)
    \/ \E t \in TaskIds : CacheMatch(t)
    \/ \E t \in TaskIds : PutOpen(t)
    \/ \E t \in TaskIds : PutWrite(t)
    \/ \E t \in TaskIds : PutFail(t)
    \/ \E m \in MsgIds, type \in MessageTypes, port \in BOOLEAN : MessageEvent(m, type, port)
    \/ \E m \in MsgIds : MessageKeys(m)
    \/ \E m \in MsgIds, n \in StaleNames \cup BucketSet : MessageDeleteOk(m, n)
    \/ \E m \in MsgIds, n \in StaleNames \cup BucketSet : MessageDeleteFail(m, n)

Spec == Init /\ [][Next]_vars

-----------------------------------------------------------------------------
(* The control channel under load: the host sends CLEAR_CACHE and then     *)
(* GET_CACHE_INFO, both with a reply channel, while pages issue up to      *)
(* MaxEvents requests whose responses are written to the cache.            *)

ControlMessages == <<"CLEAR_CACHE", "GET_CACHE_INFO">>

ControlRequests ==
    { [url |-> UrlScores, accept |-> "other"],
      [url |-> UrlFirestore, accept |-> "null"] }

InitControl ==
    /\ store = StaleStore(StaleNames)
    /\ installPc = "start"
    /\ installOutcome = "pending"
    /\ installAttached = FALSE
    /\ assetFailed = FALSE
    /\ skipWaiting = {}
    /\ activatePc = "idle"
    /\ activateOutcome = "pending"
    /\ activateDeletes = [n \in {} |-> "pending"]
    /\ clientsClaimed = FALSE
    /\ tasks = [t \in 1..MaxEvents |-> IdleTask]
    /\ msgs = [m \in 1..Len(ControlMessages) |-> IdleMsg]

NextControl ==
    \/ InstallOpen
    \/ InstallAddAll
    \/ InstallAddAllFail
    \/ ActivateEvent
    \/ ActivateKeys
    \/ \E n \in StaleNames : ActivateDeleteOk(n)
    \/ \E n \in StaleNames : ActivateDeleteFail(n)
    \/ \E t \in TaskIds, req \in ControlRequests : FetchEvent(t, req)
    \/ \E t \in TaskIds, status \in NetworkStatuses, body \in NetworkBodies :
            NetworkRespond(t, status, body)
    \/ \E t \in TaskIds : NetworkFail(t)
    \/ \E t \in TaskIds : CacheMatch(t)
    \/ \E t \in TaskIds : PutOpen(t)
    \/ \E t \in TaskIds : PutWrite(t)
    \/ \E t \in TaskIds : PutFail(t)
    \/ \E m \in MsgIds : MessageEvent(m, ControlMessages[m], TRUE)
    \/ \E m \in MsgIds : MessageKeys(m)
    \/ \E m \in MsgIds, n \in StaleNames \cup BucketSet : MessageDeleteOk(m, n)
    \/ \E m \in MsgIds, n \in StaleNames \cup BucketSet : MessageDeleteFail(m, n)

SpecControl == InitControl /\ [][NextControl]_vars

-----------------------------------------------------------------------------
(* Racing requests: up to MaxRacers fetch events for the same URL, one     *)
(* that is routed cache-first and that installation has not cached, while  *)
(* the server's content may change between two fetches.                    *)

MaxRacers == 2

RaceRequests == {r \in Requests : r.url = UrlScores}

InitRace ==
    /\ store = StaleStore(StaleNames)
    /\ installPc = "start"
    /\ installOutcome = "pending"
    /\ installAttached = FALSE
    /\ assetFailed = FALSE
    /\ skipWaiting = {}
    /\ activatePc = "idle"
    /\ activateOutcome = "pending"
    /\ activateDeletes = [n \in {} |-> "pending"]
    /\ clientsClaimed = FALSE
    /\ tasks = [t \in 1..MaxRacers |-> IdleTask]
    /\ msgs = <<>>

NextRace ==
    \/ InstallOpen
    \/ InstallAddAll
    \/ InstallAddAllFail
    \/ ActivateEvent
    \/ ActivateKeys
    \/ \E n \in StaleNames : ActivateDeleteOk(n)
    \/ \E n \in StaleNames : ActivateDeleteFail(n)
    \/ \E t \in TaskIds, req \in RaceRequests : FetchEvent(t, req)
    \/ \E t \in TaskIds, status \in NetworkStatuses, body \in RaceBodies :
            NetworkRespond(t, status, body)
    \/ \E t \in TaskIds : NetworkFail(t)
    \/ \E t \in TaskIds : CacheMatch(t)
    \/ \E t \in TaskIds : PutOpen(t)
    \/ \E t \in TaskIds : PutWrite(t)
    \/ \E t \in TaskIds : PutFail(t)

SpecRace == InitRace /\ [][NextRace]_vars

-----------------------------------------------------------------------------
(* Properties                                                              *)

Dispatched(t) == tasks[t].pc # "unused"
Intercepted(t) == Dispatched(t) /\ tasks[t].outcome # "passthrough"
Names(st) == Range(StoreKeys(st))

\* The last path segment of a request URL.
FinalSegment(href) == SplitPop(href)

\* The URL's last path segment is the basename of an entry of STATIC_FILES.
MatchesBasename(href) ==
    \E i \in 1..Len(STATIC_FILES) : FinalSegment(href) = SplitPop(STATIC_FILES[i])

\* The URL ends in a streaming-media extension.
EndsInMedia(href) == href[Len(href)] \in {".mp4", ".mp3"}

\* C1: once the activate handler has completed (its promise fulfilled, the
\* clients claimed), the store holds no bucket outside BucketSet, and every
\* CACHE_INFO reply whose enumeration ran after that lists only names of
\* BucketSet.
C1_NoStaleBucketAfterActivation ==
    activateOutcome = "fulfilled" =>
        /\ Names(store) \subseteq BucketSet
        /\ \A m \in MsgIds :
              (msgs[m].reply = "CACHE_INFO" /\ msgs[m].afterActivate)
                  => Range(msgs[m].cacheNames) \subseteq BucketSet

\* C1 witness: after an activation that deleted the stale buckets, a
\* GET_CACHE_INFO was answered with a non-empty list.
C1_Witness ==
    /\ activateOutcome = "fulfilled"
    /\ \A n \in StaleNames : n \in DOMAIN activateDeletes /\ activateDeletes[n] = "ok"
    /\ \E m \in MsgIds :
          /\ msgs[m].reply = "CACHE_INFO"
          /\ msgs[m].afterActivate
          /\ msgs[m].cacheNames # <<>>

\* C2 (as claimed): when the deletion of a stale bucket has failed and all
\* deletions have settled, every other stale bucket is gone and the activate
\* operation has succeeded and claimed the clients.
C2_DeleteFailureIsolated ==
    (Failed(activateDeletes) # {} /\ Pending(activateDeletes) = {}) =>
        /\ \A n \in DOMAIN activateDeletes :
              activateDeletes[n] = "ok" => ~HasBucket(store, n)
        /\ activateOutcome = "fulfilled"
        /\ clientsClaimed

\* C3 (as claimed): when an asset of the install list failed to fetch, the
\* promise given to waitUntil does not fulfil, install's skipWaiting is not
\* reached and the worker is not promoted to activation.
C3_InstallFailureReported ==
    (assetFailed /\ installPc = "done") =>
        /\ installOutcome = "rejected"
        /\ "install" \notin skipWaiting
        /\ activatePc = "idle"

\* C4 (as claimed): every intercepted fetch event whose handler has finished
\* was answered with a response: respondWith's promise neither rejected nor
\* resolved to no response. Stated for a worker whose activation succeeded.
C4_AlwaysAResponse ==
    activateOutcome = "fulfilled" =>
        \A t \in TaskIds :
            (Intercepted(t) /\ tasks[t].pc = "done")
                => (tasks[t].outcome = "response" /\ tasks[t].result # Undefined)

\* C5 (as claimed): a request that is no websocket request, whose URL holds
\* neither 'firebase' nor 'googleapis' and whose last path segment is the
\* basename of no STATIC_FILES entry takes the default network-first branch:
\* the network is called before any cache lookup and its put goes to the
\* dynamic bucket. Stated for a worker whose activation succeeded.
C5_UnlistedIsNetworkFirst ==
    \A t \in TaskIds :
        ( /\ activateOutcome = "fulfilled"
          /\ Dispatched(t)
          /\ ~IsWebSocket(tasks[t].req.url)
          /\ ~IsFirebaseOrApi(tasks[t].req.url)
          /\ ~MatchesBasename(tasks[t].req.url) )
        => /\ tasks[t].branch = "default"
           /\ tasks[t].fetchCalls = 1
           /\ PutBucket(tasks[t].branch) = DYNAMIC_CACHE

\* C6 (as claimed): a request whose URL ends in .mp4 or .mp3 is passed
\* through: respondWith is not called for it, so nothing is looked up,
\* fetched or stored for it. Stated for a worker whose activation succeeded.
C6_MediaPassthrough ==
    \A t \in TaskIds :
        (activateOutcome = "fulfilled" /\ Dispatched(t) /\ EndsInMedia(tasks[t].req.url))
            => /\ tasks[t].outcome = "passthrough"
               /\ tasks[t].put = "none"

\* C7: a request whose scheme is ws: or wss: is passed through whatever else
\* its URL holds: respondWith is not called, no fetch, no lookup, no put.
C7_WebSocketPassthrough ==
    \A t \in TaskIds :
        (Dispatched(t) /\ IsWebSocket(tasks[t].req.url))
            => /\ tasks[t].outcome = "passthrough"
               /\ tasks[t].pc = "done"
               /\ tasks[t].fetchCalls = 0
               /\ ~tasks[t].lookedUp
               /\ tasks[t].put = "none"

\* C7 witness: a websocket request whose URL holds 'firebase', or the
\* basename of a static asset, was passed through.
C7_Witness ==
    \E t \in TaskIds :
        /\ Dispatched(t)
        /\ IsWebSocket(tasks[t].req.url)
        /\ IsFirebaseOrApi(tasks[t].req.url) \/ MatchesBasename(tasks[t].req.url)
        /\ tasks[t].outcome = "passthrough"

\* C8 (as claimed): every request the worker intercepts whose URL matches
\* the basename of an entry of STATIC_FILES, the googleapis entries included,
\* is routed cache-first. Stated for a worker whose activation succeeded.
C8_ListedIsCacheFirst ==
    \A t \in TaskIds :
        ( /\ activateOutcome = "fulfilled"
          /\ Dispatched(t)
          /\ ~IsWebSocket(tasks[t].req.url)
          /\ MatchesBasename(tasks[t].req.url) )
        => tasks[t].branch = "static"

\* C8 (amended): every request that is no websocket request, whose URL holds
\* neither 'firebase' nor 'googleapis' and matches the basename of an entry
\* of STATIC_FILES is routed cache-first (it starts with the cache lookup,
\* without a fetch); a listed URL that holds 'googleapis' is routed
\* network-first by the earlier rule.
C8_ListedIsCacheFirstAfterEarlierRules ==
    \A t \in TaskIds :
        (Dispatched(t) /\ MatchesBasename(tasks[t].req.url))
            => CASE IsWebSocket(tasks[t].req.url) -> tasks[t].outcome = "passthrough"
                 [] IsFirebaseOrApi(tasks[t].req.url) ->
                        tasks[t].branch = "api" /\ tasks[t].fetchCalls = 1
                 [] OTHER ->
                        /\ tasks[t].branch = "static"
                        /\ tasks[t].fetchCalls = 0 \/ tasks[t].lookedUp

\* C8 witness: a listed asset was routed cache-first and looked up.
C8_Witness ==
    \E t \in TaskIds :
        /\ tasks[t].req.url = UrlIndex
        /\ tasks[t].branch = "static"
        /\ tasks[t].lookedUp

C10_OfflineFallback ==
    \A t \in TaskIds :
        ( /\ activateOutcome = "fulfilled"
          /\ Intercepted(t)
          /\ Classify(tasks[t].req.url) = "network-first"
          /\ tasks[t].pc = "done"
          /\ tasks[t].netFailed
          /\ tasks[t].lookedUp
          /\ tasks[t].matched = Undefined )
        => /\ tasks[t].outcome = "response"
           /\ tasks[t].result =
                 IF tasks[t].req.accept = "text/html" THEN OfflinePage ELSE OfflineError

\* The entry a bucket of the store holds for a key; Undefined without the
\* bucket or the entry.
BucketEntry(st, name, key) ==
    IF HasBucket(st, name) THEN BucketMatch(st[BucketOf(st, name)], key)
    ELSE Undefined

\* C11 (as claimed): a network-first request answered by the network with
\* status 200 gets that response, and once its cache write has settled the
\* dynamic bucket holds an entry for the request with that response.
C11_NetworkFirstIsCached ==
    \A t \in TaskIds :
        ( /\ activateOutcome = "fulfilled"
          /\ Intercepted(t)
          /\ Classify(tasks[t].req.url) = "network-first"
          /\ ~tasks[t].netFailed
          /\ tasks[t].put \in {"done", "failed"} )
        => /\ tasks[t].outcome = "response"
           /\ tasks[t].result = NetworkResponse(200)
           /\ BucketEntry(store, DYNAMIC_CACHE, tasks[t].req.url) = tasks[t].result

\* C11 (amended): a network-first request answered by the network with
\* status 200 gets that response unchanged, whatever becomes of its cache
\* write; and the step in which cache.put completes on a bucket that is
\* still in the store leaves the dynamic bucket holding an entry for the
\* request with that response.
C11_NetworkFirstIsCachedOnWrite ==
    /\ [](\A t \in TaskIds :
            ( /\ Intercepted(t)
              /\ Classify(tasks[t].req.url) = "network-first"
              /\ tasks[t].put # "none" )
            => /\ tasks[t].pc = "done"
               /\ tasks[t].outcome = "response"
               /\ tasks[t].result = NetworkResponse(200))
    /\ [][\A t \in TaskIds :
            ( /\ tasks[t].put = "put"
              /\ tasks'[t].put = "done"
              /\ Classify(tasks[t].req.url) = "network-first" )
            => BucketEntry(store', DYNAMIC_CACHE, tasks[t].req.url) = tasks[t].result]_vars

\* C11 witness: a network-first request got the 200 response of the network
\* and its cache write left that response in the dynamic bucket.
C11_Witness ==
    \E t \in TaskIds :
        /\ tasks[t].branch = "api"
        /\ tasks[t].put = "done"
        /\ tasks[t].result = NetworkResponse(200)
        /\ BucketEntry(store, DYNAMIC_CACHE, tasks[t].req.url) = NetworkResponse(200)

\* C12: a network-first request whose fetch failed and whose
\* caches.match(event.request) found an entry in the store is answered with
\* that entry: not the offline page, not the 408 response, not a failure.
C12_CachedFallback ==
    \A t \in TaskIds :
        ( /\ Intercepted(t)
          /\ Classify(tasks[t].req.url) = "network-first"
          /\ tasks[t].netFailed
          /\ tasks[t].lookedUp
          /\ tasks[t].matched # Undefined )
        => /\ tasks[t].pc = "done"
           /\ tasks[t].outcome = "response"
           /\ tasks[t].result = tasks[t].matched
           /\ tasks[t].result \notin {OfflinePage, OfflineError}

\* C12 witness: a network-first request whose fetch failed was answered with
\* the entry installation had cached for it.
C12_Witness ==
    \E t \in TaskIds :
        /\ tasks[t].branch = "api"
        /\ tasks[t].netFailed
        /\ tasks[t].matched = InstalledResponse
        /\ tasks[t].result = InstalledResponse
        /\ tasks[t].outcome = "response"

\* C13: a cache-first request that found no cached entry and whose fetch
\* failed has its handler finished in the step of the failure, and
\* respondWith's promise has settled without a response.
C13_CacheFirstFailureSurfaces ==
    \A t \in TaskIds :
        ( /\ Intercepted(t)
          /\ Classify(tasks[t].req.url) = "cache-first"
          /\ tasks[t].lookedUp
          /\ tasks[t].matched = Undefined
          /\ tasks[t].netFailed )
        => /\ tasks[t].pc = "done"
           /\ tasks[t].outcome \in {"noresponse", "rejected"}
           /\ tasks[t].result = Undefined

\* C13 witness: a cache-first request missed the cache, its fetch failed and
\* the page got no response.
C13_Witness ==
    \E t \in TaskIds :
        /\ tasks[t].branch = "static"
        /\ tasks[t].lookedUp
        /\ tasks[t].matched = Undefined
        /\ tasks[t].netFailed
        /\ tasks[t].pc = "done"
        /\ tasks[t].outcome = "noresponse"

\* C14 (as claimed): a GET_CACHE_INFO sent after a CLEAR_CACHE is answered
\* with an empty list of names. Stated for a CLEAR_CACHE whose enumeration
\* ran after activation had completed and none of whose deletes failed.
C14_ClearThenInfoIsEmpty ==
    \A c \in MsgIds, g \in MsgIds :
        ( /\ c < g
          /\ msgs[c].type = "CLEAR_CACHE"
          /\ msgs[c].afterActivate
          /\ ~msgs[c].failed
          /\ msgs[g].type = "GET_CACHE_INFO"
          /\ msgs[g].reply = "CACHE_INFO" )
        => msgs[g].cacheNames = <<>>

\* The reply a message type is answered with.
ReplyOf(type) == IF type = "GET_CACHE_INFO" THEN "CACHE_INFO" ELSE "CACHE_CLEARED"

\* C15 (as claimed): a GET_CACHE_INFO or CLEAR_CACHE message that came with
\* a reply channel and whose handler can take no further step has been
\* answered on that channel with its reply.
C15_EveryRequestIsAnswered ==
    \A m \in MsgIds :
        ( /\ msgs[m].type \in {"GET_CACHE_INFO", "CLEAR_CACHE"}
          /\ msgs[m].port
          /\ msgs[m].pc \in {"done", "rejected", "threw"} )
        => msgs[m].reply = ReplyOf(msgs[m].type)

\* C16: CACHE_CLEARED is posted only by a CLEAR_CACHE none of whose deletes
\* is pending or has failed; the step in which caches.keys() resolves for a
\* CLEAR_CACHE starts a delete for every bucket then in the store, the
\* static and the dynamic bucket included; and a delete that resolves has
\* removed its bucket from the store.
C16_ClearedAfterEveryDelete ==
    /\ [](\A m \in MsgIds :
            msgs[m].reply = "CACHE_CLEARED"
                => /\ msgs[m].type = "CLEAR_CACHE"
                   /\ msgs[m].dels = {}
                   /\ ~msgs[m].failed)
    /\ [][\A m \in MsgIds :
            /\ ( /\ msgs[m].type = "CLEAR_CACHE"
                 /\ msgs[m].pc = "keys"
                 /\ msgs'[m].pc # "keys" )
               => /\ msgs'[m].dels = Names(store)
                  /\ (msgs'[m].reply = "CACHE_CLEARED" => store = <<>>)
            /\ \A n \in msgs[m].dels :
                  (n \notin msgs'[m].dels /\ ~msgs'[m].failed)
                      => ~HasBucket(store', n)]_vars

\* C16 witness: CACHE_CLEARED was posted after a CLEAR_CACHE that deleted
\* the static bucket installation had opened.
C16_Witness ==
    \E m \in MsgIds :
        /\ msgs[m].reply = "CACHE_CLEARED"
        /\ installPc # "start"
        /\ ~installAttached
        /\ ~HasBucket(store, STATIC_CACHE)

\* C17: a fetch event whose 200 response started a cache write has its
\* response from the step the write was started in, while caches.open and
\* cache.put are still pending as well as after either has failed; and no
\* step changes the response or the outcome of an event that has a cache
\* write.
C17_WriteOffResponsePath ==
    /\ [](\A t \in TaskIds :
            tasks[t].put # "none"
                => /\ tasks[t].pc = "done"
                   /\ tasks[t].outcome = "response"
                   /\ tasks[t].result = NetworkResponse(200))
    /\ [][\A t \in TaskIds :
            tasks[t].put # "none"
                => /\ tasks'[t].result = tasks[t].result
                   /\ tasks'[t].outcome = tasks[t].outcome]_vars

\* C17 witness: the cache write of a cache-first request failed and the
\* request keeps the response of the network.
C17_Witness ==
    \E t \in TaskIds :
        /\ tasks[t].branch = "static"
        /\ tasks[t].put = "failed"
        /\ tasks[t].outcome = "response"
        /\ tasks[t].result = NetworkResponse(200)

\* C18: only an event whose fetch resolved with status 200 has a cache
\* write, and what it writes is that response; so every entry of the static
\* and the dynamic bucket is a 200 response of the network or an entry of
\* installation, never a non-200 response, the offline page or the 408
\* response.
C18_OnlyOkResponsesCached ==
    /\ \A t \in TaskIds :
          tasks[t].put # "none"
              => /\ ~tasks[t].netFailed
                 /\ tasks[t].result = NetworkResponse(200)
    /\ \A i \in 1..Len(store) :
          store[i].name \in BucketSet
              => \A e \in store[i].entries :
                    /\ e.resp \in {NetworkResponse(200), InstalledResponse}
                    /\ e.resp.status = 200
                    /\ e.resp \notin {OfflinePage, OfflineError, Undefined}

\* C18 witness: a cache-first request wrote the 200 response of the network
\* to the static bucket.
C18_Witness ==
    \E t \in TaskIds :
        /\ tasks[t].branch = "static"
        /\ tasks[t].put = "done"
        /\ BucketEntry(store, STATIC_CACHE, tasks[t].req.url) = NetworkResponse(200)

\* The entries a bucket of the store holds for a key.
EntriesFor(st, name, key) ==
    IF HasBucket(st, name)
    THEN {e \in st[BucketOf(st, name)].entries : e.key = key}
    ELSE {}

\* A cache-first event whose lookup missed.
Missed(t) ==
    /\ tasks[t].branch = "static"
    /\ tasks[t].lookedUp
    /\ tasks[t].matched = Undefined

\* C19: of the cache-first requests for one URL whose lookups missed, each
\* one whose fetch was answered has that answer as its response, fetched by
\* itself and never changed afterwards; the step in which the put of one of
\* them completes leaves the static bucket with exactly one entry for the
\* URL, the response that put wrote; so once all their puts have completed
\* the one entry is what the last put wrote.
C19_LastWriteWins ==
    /\ [](\A t \in TaskIds :
            (Missed(t) /\ tasks[t].pc = "done" /\ ~tasks[t].netFailed)
                => /\ tasks[t].outcome = "response"
                   /\ tasks[t].fetchCalls = 1
                   /\ tasks[t].result.body \in RaceBodies)
    /\ [](\A t \in TaskIds, u \in TaskIds :
            ( /\ t # u /\ Missed(t) /\ Missed(u)
              /\ tasks[t].req.url = tasks[u].req.url
              /\ \A w \in TaskIds : tasks[w].put \in {"none", "done"}
              /\ tasks[t].put = "done" /\ tasks[u].put = "done" )
            => /\ Cardinality(EntriesFor(store, STATIC_CACHE, tasks[t].req.url)) = 1
               /\ \E w \in TaskIds :
                     /\ tasks[w].put = "done"
                     /\ BucketEntry(store, STATIC_CACHE, tasks[t].req.url) = tasks[w].result)
    /\ [][\A t \in TaskIds :
            /\ tasks[t].pc = "done" => tasks'[t].result = tasks[t].result
            /\ ( /\ tasks[t].put = "put"
                 /\ tasks'[t].put = "done"
                 /\ tasks[t].branch = "static" )
               => EntriesFor(store', STATIC_CACHE, tasks[t].req.url)
                      = {Entry(tasks[t].req.url, tasks[t].result)}]_vars

\* C19 witness: two cache-first requests for the same URL both missed, were
\* answered with different responses and both wrote the cache; the static
\* bucket holds the response of the first of them, whose put was the later.
C19_Witness ==
    \E t \in TaskIds, u \in TaskIds :
        /\ t < u
        /\ Missed(t) /\ Missed(u)
        /\ tasks[t].req.url = tasks[u].req.url
        /\ tasks[t].put = "done" /\ tasks[u].put = "done"
        /\ tasks[t].result # tasks[u].result
        /\ tasks[t].outcome = "response" /\ tasks[u].outcome = "response"
        /\ EntriesFor(store, STATIC_CACHE, tasks[t].req.url)
              = {Entry(tasks[t].req.url, tasks[t].result)}

\* The store after a pruning all of whose deletes have resolved.
Pruned(st) == SelectSeq(st, LAMBDA b : b.name \notin Prune(StoreKeys(st)))

\* C20: pruning the store of any reachable state and then pruning the
\* result selects nothing the second time; pruning never selects the static
\* or the dynamic bucket and leaves both in the store; and once the deletes
\* of activation have all resolved, pruning the store selects nothing.
C20_PruneIdempotent ==
    /\ Prune(StoreKeys(Pruned(store))) = {}
    /\ Names(Pruned(store)) \ BucketSet = {}
    /\ Pruned(Pruned(store)) = Pruned(store)
    /\ Prune(StoreKeys(store)) \cap BucketSet = {}
    /\ \A n \in BucketSet : HasBucket(store, n) => HasBucket(Pruned(store), n)
    /\ DOMAIN activateDeletes \cap BucketSet = {}
    /\ activateOutcome = "fulfilled" => Prune(StoreKeys(store)) = {}

\* C20 witness: activation has deleted both stale buckets, the store holds
\* the static and the dynamic bucket, and pruning it selects nothing.
C20_Witness ==
    /\ activateOutcome = "fulfilled"
    /\ \A n \in StaleNames : n \in DOMAIN activateDeletes /\ activateDeletes[n] = "ok"
    /\ Names(store) = BucketSet
    /\ Pruned(store) = store

====
